---- MODULE Spec2Model ----
(***************************************************************************)
(* EUR/ARS exchange rate monitor: WebScraper (modules/web_scraper.py),     *)
(* DiscordNotifier (modules/discord_notifier.py) and ExchangeRateMonitor   *)
(* (main.py).                                                              *)
(*                                                                         *)
(* A text is a sequence of one-character strings.  A Python value that may *)
(* be a float or None is a record [kind, ip, fd]: kind "float" carries the *)
(* decimal number ip.fd (ip the integer part, fd the fraction digits with  *)
(* trailing zeros removed, so that equal numbers are equal records); kind  *)
(* "None" is None; kind "raise" is an exception leaving the function.      *)
(* All texts of the model have at most 15 significant digits, for which    *)
(* the comparison of doubles agrees with the comparison of the decimals.   *)
(***************************************************************************)
EXTENDS Integers, Sequences, FiniteSets, TLC

VARIABLES
    pc,            \* position of the run / of the call under way
    max_retries,   \* WebScraper.max_retries
    delay,         \* WebScraper.delay_between_requests
    debug_html,    \* WebScraper.debug_html
    threshold,     \* ExchangeRateMonitor.threshold
    attempt,       \* loop variable of get_exchange_rate
    attempts,      \* attempts begun so far (loop bodies entered)
    driver,        \* local variable driver of get_exchange_rate: "None" or "set"
    openSessions,  \* browser sessions currently open
    opened,        \* browser sessions opened so far
    rate_text,     \* local variable rate_text of get_exchange_rate
    reads,         \* reads of the element text in the current attempt
    graceSleeps,   \* time.sleep(2) calls in the current attempt
    pending,       \* value of a return statement waiting for the finally block
    result,        \* what get_exchange_rate gave its caller
    slept,         \* durations of the inter-attempt sleeps, in order
    debugFiles,    \* attempt indexes whose debug file was written
    debugCalls,    \* attempt indexes for which _save_debug_html was called
    sent,          \* notifications requested, in order
    posts,         \* outbound POST attempts, in order (their outcomes)
    delivered,     \* return values of the notification sends, in order
    exitStatus,    \* process exit status: 0, 1, or -1 while running
    text,          \* input of the standalone _extract_numeric_value call
    parsed         \* its result

vars == <<pc, max_retries, delay, debug_html, threshold, attempt, attempts, driver,
          openSessions, opened, rate_text, reads, graceSleeps, pending, result,
          slept, debugFiles, debugCalls, sent, posts, delivered, exitStatus, text, parsed>>

(***************************************************************************)
(* Bounds of the model.                                                    *)
(***************************************************************************)
MaxRetries == 2
MaxLen == 4
MaxSends == 2

(***************************************************************************)
(* Program constants.                                                      *)
(***************************************************************************)
RangeLow == 100
RangeHigh == 10000
DecimalGroupMax == 2

(***************************************************************************)
(* Values.                                                                 *)
(***************************************************************************)
NoneVal == [kind |-> "None", ip |-> 0, fd |-> <<>>]
RaisedVal == [kind |-> "raise", ip |-> 0, fd |-> <<>>]
Float(i, f) == [kind |-> "float", ip |-> i, fd |-> f]

Digits == {"0", "1", "2", "3", "4", "5", "6", "7", "8", "9"}
Whitespace == {" "}

DigitVal(c) ==
    CASE c = "0" -> 0 [] c = "1" -> 1 [] c = "2" -> 2 [] c = "3" -> 3
      [] c = "4" -> 4 [] c = "5" -> 5 [] c = "6" -> 6 [] c = "7" -> 7
      [] c = "8" -> 8 [] c = "9" -> 9

\* the number written by the first n digits of ds
RECURSIVE ToIntUpTo(_, _)
ToIntUpTo(ds, n) == IF n = 0 THEN 0 ELSE 10 * ToIntUpTo(ds, n - 1) + ds[n]

ToInt(ds) == ToIntUpTo(ds, Len(ds))

StripTrailingZeros(ds) ==
    LET nz == {i \in 1..Len(ds) : ds[i] # 0}
    IN  IF nz = {} THEN <<>>
        ELSE SubSeq(ds, 1, CHOOSE i \in nz : \A j \in nz : j <= i)

RECURSIVE Pow10(_)
Pow10(n) == IF n = 0 THEN 1 ELSE 10 * Pow10(n - 1)

Max(a, b) == IF a >= b THEN a ELSE b

\* the fraction digits fd as an integer number of 10^-n
FracAs(fd, n) == ToInt(fd) * Pow10(n - Len(fd))

\* a < b on floats
Less(a, b) ==
    LET n == Max(Len(a.fd), Len(b.fd))
    IN  \/ a.ip < b.ip
        \/ a.ip = b.ip /\ FracAs(a.fd, n) < FracAs(b.fd, n)

\* a >= b on floats
GreaterEq(a, b) == ~Less(a, b)

\* Python truthiness of an Optional[float]: None and 0.0 are false
Truthy(v) == v.kind = "float" /\ ~(v.ip = 0 /\ v.fd = <<>>)

(***************************************************************************)
(* str.strip, re.sub, str.replace, str.split, float.                       *)
(***************************************************************************)
\* s.strip(): s from its first to its last character that is not whitespace
Strip(s) ==
    LET ink == {i \in 1..Len(s) : s[i] \notin Whitespace}
    IN  IF ink = {} THEN <<>>
        ELSE SubSeq(s, CHOOSE i \in ink : \A j \in ink : i <= j,
                       CHOOSE i \in ink : \A j \in ink : j <= i)

IsNumericChar(c) == c \in Digits \cup {".", ","}

\* re.sub(r'[^\d.,]', '', s)
RemoveNonNumeric(s) == SelectSeq(s, IsNumericChar)

Contains(s, c) == \E i \in 1..Len(s) : s[i] = c

Count(s, c) == Cardinality({i \in 1..Len(s) : s[i] = c})

\* s.replace(c, '')
Remove(s, c) == SelectSeq(s, LAMBDA x : x # c)

\* s.replace(c, d)
Replace(s, c, d) == [i \in 1..Len(s) |-> IF s[i] = c THEN d ELSE s[i]]

\* len(s.split(c)[-1])
LastPartLen(s, c) ==
    LET at == {i \in 1..Len(s) : s[i] = c}
    IN  IF at = {} THEN Len(s)
        ELSE Len(s) - (CHOOSE i \in at : \A j \in at : j <= i)

\* what float() accepts of a string of digits and dots
WellFormed(s) == Count(s, ".") <= 1 /\ \E i \in 1..Len(s) : s[i] \in Digits

DotPos(s) == IF Contains(s, ".") THEN CHOOSE i \in 1..Len(s) : s[i] = "." ELSE Len(s) + 1

DigitsOf(s) == [i \in 1..Len(s) |-> DigitVal(s[i])]

\* float(s): the number, or ValueError (kind "ValueError")
PyFloat(s) ==
    IF WellFormed(s)
    THEN Float(ToInt(DigitsOf(SubSeq(s, 1, DotPos(s) - 1))),
               StripTrailingZeros(DigitsOf(SubSeq(s, DotPos(s) + 1, Len(s)))))
    ELSE [kind |-> "ValueError", ip |-> 0, fd |-> <<>>]

(***************************************************************************)
(* WebScraper._extract_numeric_value                                       *)
(***************************************************************************)
\* a lone dot read as a thousands separator, as European notation has it
NormalizeSeparatorsDotThousands(cleaned) ==
    IF Contains(cleaned, ",") /\ Contains(cleaned, ".")
    THEN Remove(cleaned, ",")
    ELSE IF Contains(cleaned, ",")
         THEN IF LastPartLen(cleaned, ",") <= DecimalGroupMax
              THEN Replace(cleaned, ",", ".")
              ELSE Remove(cleaned, ",")
         ELSE Remove(cleaned, ".")

\* "Handle decimal separators"
NormalizeSeparators(cleaned) ==
    IF Contains(cleaned, ",") /\ Contains(cleaned, ".")
    THEN Remove(cleaned, ",")
    ELSE IF Contains(cleaned, ",")
         THEN IF LastPartLen(cleaned, ",") <= DecimalGroupMax
              THEN Replace(cleaned, ",", ".")
              ELSE Remove(cleaned, ",")
         ELSE cleaned

\* the range check with the bounds included
InRangeInclusive(value) ==
    /\ ~Less(value, Float(RangeLow, <<>>))
    /\ ~Less(Float(RangeHigh, <<>>), value)

\* "Sanity check": 100 < value < 10000
InRange(value) ==
    /\ Less(Float(RangeLow, <<>>), value)
    /\ Less(value, Float(RangeHigh, <<>>))

\* the ValueError of float() left uncaught
OnValueErrorUncaught == RaisedVal

\* except ValueError: return None
OnValueError == NoneVal

extract_numeric_value(t) ==
    LET cleaned == RemoveNonNumeric(Strip(t))
    IN  IF cleaned = <<>> THEN NoneVal
        ELSE LET value == PyFloat(NormalizeSeparators(cleaned))
             IN  IF value.kind = "ValueError" THEN OnValueError
                 ELSE IF InRange(value) THEN value
                 ELSE NoneVal

(***************************************************************************)
(* f"{x:.2f}" of a float x >= 1: the decimal text of x rounded to          *)
(* hundredths as the double nearest to x rounds.  A decimal with three     *)
(* fraction digits ending in 5 is a tie only when it is a double itself    *)
(* (then half-to-even applies); otherwise the nearest double lies above or *)
(* below it, which the residue of frac * 2^k modulo 1000 decides, 2^-k     *)
(* being the spacing of the doubles around x.                              *)
(***************************************************************************)
RECURSIVE Log2(_)
Log2(n) == IF n <= 1 THEN 0 ELSE 1 + Log2(n \div 2)

RECURSIVE Pow2Mod1000(_)
Pow2Mod1000(k) == IF k = 0 THEN 1 ELSE (2 * Pow2Mod1000(k - 1)) % 1000

DigitAt(fd, i) == IF i <= Len(fd) THEN fd[i] ELSE 0

RoundsUp(v) ==
    LET d3   == DigitAt(v.fd, 3)
        more == Len(v.fd) > 3
        f    == 100 * DigitAt(v.fd, 1) + 10 * DigitAt(v.fd, 2) + 5
        r    == (f * Pow2Mod1000(52 - Log2(v.ip))) % 1000
    IN  IF d3 > 5 \/ (d3 = 5 /\ more) THEN TRUE
        ELSE IF d3 < 5 THEN FALSE
        ELSE IF r = 0 THEN DigitAt(v.fd, 2) % 2 = 1
        ELSE r > 500

RECURSIVE IntToText(_)
IntToText(n) ==
    LET d == <<"0", "1", "2", "3", "4", "5", "6", "7", "8", "9">>[(n % 10) + 1]
    IN  IF n < 10 THEN <<d>> ELSE Append(IntToText(n \div 10), d)

Format2(v) ==
    LET h == 100 * v.ip + 10 * DigitAt(v.fd, 1) + DigitAt(v.fd, 2)
               + (IF RoundsUp(v) THEN 1 ELSE 0)
    IN  IntToText(h \div 100) \o <<".">>
          \o IntToText((h % 100) \div 10) \o IntToText(h % 10)

(***************************************************************************)
(* DiscordNotifier                                                         *)
(***************************************************************************)
URL == "WESTERN_UNION_URL"
NoText == <<>>

\* the message, title and color send_rate_alert builds
RateAlertPayload(current_rate, thr, is_above_threshold, url) ==
    [title          |-> IF is_above_threshold
                        THEN "EUR/ARS Rate Alert - Above Threshold"
                        ELSE "EUR/ARS Rate Alert - Below Threshold",
     direction      |-> IF is_above_threshold THEN "above" ELSE "below",
     body           |-> "rate alert",
     body_rate      |-> Format2(current_rate),
     body_threshold |-> Format2(thr),
     link           |-> url,
     color          |-> IF is_above_threshold THEN "0x00FF00" ELSE "0xFF6B6B"]

\* the message, title and color send_error_notification builds
ErrorPayload(error_message) ==
    [title          |-> "Exchange Rate Monitor Error",
     direction      |-> "none",
     body           |-> error_message,
     body_rate      |-> NoText,
     body_threshold |-> NoText,
     link           |-> "None",
     color          |-> "0xFF0000"]

\* the message, title and color send_test_notification builds
TestPayload ==
    [title          |-> "Test Notification",
     direction      |-> "none",
     body           |-> "Test notification from Exchange Rate Monitor",
     body_rate      |-> NoText,
     body_threshold |-> NoText,
     link           |-> "None",
     color          |-> "0x3498DB"]

\* what requests.post can end in: an exception, or a response with a status
Statuses == {101, 200, 204, 299, 304, 400, 404, 500, 599}
PostOutcomes ==
    [kind : {"ConnectionError", "Timeout", "OtherException"}, status : {0}]
      \cup [kind : {"response"}, status : Statuses]

\* response.raise_for_status(): HTTPError for a 4xx or 5xx status
RaisesForStatus(status) == 400 <= status /\ status < 600

\* only the first except clause, requests.RequestException
NotifierCatchesRequestOnly(exc) == exc \in {"ConnectionError", "Timeout", "HTTPError"}

\* the except clauses of _send_notification: RequestException, then Exception
NotifierCatches(exc) ==
    \/ exc \in {"ConnectionError", "Timeout", "HTTPError"}
    \/ exc \in {"OtherException"}

\* the try block of _send_notification: "True", "False" or "raise"
SendResult(outcome) ==
    LET exc == IF outcome.kind # "response" THEN outcome.kind
               ELSE IF RaisesForStatus(outcome.status) THEN "HTTPError"
               ELSE "none"
    IN  IF exc = "none" THEN "True"
        ELSE IF NotifierCatches(exc) THEN "False"
        ELSE "raise"

\* the three public operations: the call and the payload it builds
send_rate_alert(current_rate, thr, is_above_threshold, url) ==
    [op |-> "send_rate_alert", rate |-> current_rate, threshold |-> thr,
     is_above |-> is_above_threshold, url |-> url,
     payload |-> RateAlertPayload(current_rate, thr, is_above_threshold, url)]

send_error_notification(error_message) ==
    [op |-> "send_error_notification", rate |-> NoneVal, threshold |-> NoneVal,
     is_above |-> FALSE, url |-> "None", payload |-> ErrorPayload(error_message)]

send_test_notification ==
    [op |-> "send_test_notification", rate |-> NoneVal, threshold |-> NoneVal,
     is_above |-> FALSE, url |-> "None", payload |-> TestPayload]

\* how many times _send_notification calls requests.post for one send
PostsPerSend == 1

\* _send_notification: requests.post inside try, no loop around it
SendNotification(req, outcome) ==
    /\ sent' = Append(sent, req)
    /\ posts' = posts \o [i \in 1..PostsPerSend |-> outcome]
    /\ delivered' = Append(delivered, SendResult(outcome))

(***************************************************************************)
(* Inputs: what the page shows, the configuration, the texts parsed alone. *)
(***************************************************************************)
Alphabet == {"0", "1", "9", ".", ",", " ", "A"}

Examples ==
    { <<"1", ".", "8", "0", "0", ",", "2", "5">>,
      <<"1", ".", "6", "8", "8", ",", "5", "6">>,
      <<"1", ",", "6", "8", "8", ".", "5", "6">>,
      <<"1", "6", "8", "8", ",", "5", "6">>,
      <<"1", ",", "8", "0", "0">>,
      <<"1", "6", "8", "8", ".", "5", "5", "9", "0", " ", "A", "R", "S">>,
      <<"1", "0", "0", "0", "0">>,
      <<"1", "0", "0", ".", "0", "0">>,
      <<"1", "0", "0", ".", "0", "1">>,
      <<"9", "9", "9", "9", ".", "9", "9">>,
      <<"1", ",", "0", "0", "0", ",", "0">>,
      <<"1", ",", "2", ",", "3">> }

ParseInputs == Examples \cup UNION {[1..n -> Alphabet] : n \in 0..MaxLen}

\* texts the element can show when it is read
PageTexts ==
    { <<>>,
      <<" ">>,
      <<"A", "R", "S">>,
      <<"1", ".", "2", ".", "3">>,
      <<"1", "0", "0">>,
      <<"1", "0", "0", "0", "0">>,
      <<"1", "6", "8", "8", ",", "5", "6">>,
      <<"1", "7", "0", "0", " ", "A", "R", "S">>,
      <<"1", "6", "8", "8", ".", "5", "5", "9", "0", " ", "A", "R", "S">>,
      <<"1", ".", "8", "0", "0", ",", "2", "5">> }

Thresholds == {Float(1700, <<>>), Float(1688, <<5, 6>>)}
Delays == {0, 1}

(***************************************************************************)
(* Initial states: a run of main.py, a call of _extract_numeric_value, or  *)
(* the notifier used alone as test.py does.                                *)
(***************************************************************************)
InitLocals ==
    /\ attempt = 0
    /\ attempts = 0
    /\ driver = "None"
    /\ openSessions = 0
    /\ opened = 0
    /\ rate_text = <<>>
    /\ reads = 0
    /\ graceSleeps = 0
    /\ pending = NoneVal
    /\ result = NoneVal
    /\ slept = <<>>
    /\ debugFiles = {}
    /\ debugCalls = {}
    /\ sent = <<>>
    /\ posts = <<>>
    /\ delivered = <<>>
    /\ exitStatus = -1
    /\ parsed = NoneVal

InitRun ==
    /\ pc = "start"
    /\ max_retries \in -1..MaxRetries
    /\ delay \in Delays
    /\ debug_html \in BOOLEAN
    /\ threshold \in Thresholds
    /\ text = <<>>
    /\ InitLocals

InitParse ==
    /\ pc = "parse"
    /\ max_retries = 3
    /\ delay = 1
    /\ debug_html = FALSE
    /\ threshold = Float(1700, <<>>)
    /\ text \in ParseInputs
    /\ InitLocals

InitNotifier ==
    /\ pc = "notify"
    /\ max_retries = 3
    /\ delay = 1
    /\ debug_html = FALSE
    /\ threshold \in Thresholds
    /\ text = <<>>
    /\ InitLocals

Init == InitRun \/ InitParse \/ InitNotifier

(***************************************************************************)
(* WebScraper.get_exchange_rate, one action per step of an attempt.        *)
(***************************************************************************)
scraperLocals == <<attempt, attempts, driver, openSessions, opened, rate_text, reads,
                   graceSleeps, pending, result, slept, debugFiles,
                   debugCalls>>
config == <<max_retries, delay, debug_html, threshold>>
notifierVars == <<sent, posts, delivered>>
parseVars == <<text, parsed>>

\* ExchangeRateMonitor.run enters the try block and calls get_exchange_rate
Start ==
    /\ pc = "start"
    /\ pc' = "loop"
    /\ UNCHANGED <<config, scraperLocals, notifierVars, exitStatus, parseVars>>

\* range(n) that yields one index too many
LoopContinuesInclusive(att, n) == att <= n

\* for attempt in range(self.max_retries): is there another index
LoopContinues(att, n) == att < n

\* for attempt in range(self.max_retries): driver = None
LoopHead ==
    /\ pc = "loop"
    /\ IF LoopContinues(attempt, max_retries)
       THEN /\ pc' = "create"
            /\ attempts' = attempts + 1
            /\ driver' = "None"
            /\ rate_text' = <<>>
            /\ reads' = 0
            /\ graceSleeps' = 0
            /\ pending' = NoneVal
            /\ UNCHANGED result
       ELSE /\ pc' = "returned"
            /\ result' = NoneVal
            /\ UNCHANGED <<attempts, driver, rate_text, reads, graceSleeps, pending>>
    /\ UNCHANGED <<config, attempt, openSessions, opened, slept, debugFiles, debugCalls,
                   notifierVars, exitStatus, parseVars>>

\* _create_driver: webdriver.Chrome(...) opens the session, then
\* set_page_load_timeout configures it; either can raise, and only a
\* finished _create_driver hands the session to the caller
CreateOutcomes == {"ok", "chrome_raises", "configure_raises"}
create_driver(o) ==
    [opens |-> o # "chrome_raises", returns |-> o = "ok"]

CreateDriver ==
    /\ pc = "create"
    /\ \E o \in CreateOutcomes :
         LET c == create_driver(o)
         IN  /\ opened' = IF c.opens THEN opened + 1 ELSE opened
             /\ openSessions' = IF c.opens THEN openSessions + 1 ELSE openSessions
             /\ driver' = IF c.returns THEN "set" ELSE "None"
             /\ pc' = IF c.returns THEN "navigate" ELSE "finally"
    /\ UNCHANGED <<config, attempt, attempts, rate_text, reads, graceSleeps, pending,
                   result, slept, debugFiles, debugCalls, notifierVars, exitStatus, parseVars>>

\* driver.get(url)
Navigate ==
    /\ pc = "navigate"
    /\ \E o \in {"ok", "raise"} : pc' = IF o = "ok" THEN "wait" ELSE "finally"
    /\ UNCHANGED <<config, scraperLocals, notifierVars, exitStatus, parseVars>>

\* wait.until(presence_of_element_located(...))
WaitElement ==
    /\ pc = "wait"
    /\ \E o \in {"ok", "TimeoutException", "raise"} :
         pc' = IF o = "ok" THEN "read" ELSE "finally"
    /\ UNCHANGED <<config, scraperLocals, notifierVars, exitStatus, parseVars>>

\* the grace sleep and second read taken whatever the first read gave
NeedsGraceAlways(t) == TRUE

\* if not rate_text
NeedsGrace(t) == t = <<>>

\* rate_text = rate_element.text.strip(); if not rate_text: ...
ReadText ==
    /\ pc = "read"
    /\ reads' = reads + 1
    /\ \/ \E t \in PageTexts :
            /\ rate_text' = Strip(t)
            /\ pc' = IF NeedsGrace(Strip(t)) THEN "grace" ELSE "debug"
       \/ /\ pc' = "finally"
          /\ UNCHANGED rate_text
    /\ UNCHANGED <<config, attempt, attempts, driver, openSessions, opened, graceSleeps,
                   pending, result, slept, debugFiles, debugCalls, notifierVars, exitStatus,
                   parseVars>>

\* time.sleep(2); rate_text = rate_element.text.strip()
GraceReread ==
    /\ pc = "grace"
    /\ graceSleeps' = graceSleeps + 1
    /\ reads' = reads + 1
    /\ \/ \E t \in PageTexts :
            /\ rate_text' = Strip(t)
            /\ pc' = "debug"
       \/ /\ pc' = "finally"
          /\ UNCHANGED rate_text
    /\ UNCHANGED <<config, attempt, attempts, driver, openSessions, opened, pending,
                   result, slept, debugFiles, debugCalls, notifierVars, exitStatus, parseVars>>

\* _save_debug_html: the file of attempt + 1 is written, or the write fails
\* and the except clause swallows it
save_debug_html(files, att, written) ==
    IF written THEN files \cup {att + 1} ELSE files

\* if self.debug_html: self._save_debug_html(driver.page_source, attempt)
DebugCapture ==
    /\ pc = "debug"
    /\ IF debug_html
       THEN \E o \in {"saved", "write_fails", "page_source_raises"} :
              /\ pc' = IF o = "page_source_raises" THEN "finally" ELSE "extract"
              /\ debugFiles' = IF o = "page_source_raises" THEN debugFiles
                               ELSE save_debug_html(debugFiles, attempt, o = "saved")
              /\ debugCalls' = IF o = "page_source_raises" THEN debugCalls
                               ELSE debugCalls \cup {attempt + 1}
       ELSE /\ pc' = "extract"
            /\ UNCHANGED <<debugFiles, debugCalls>>
    /\ UNCHANGED <<config, attempt, attempts, driver, openSessions, opened, rate_text,
                   reads, graceSleeps, pending, result, slept, notifierVars,
                   exitStatus, parseVars>>

\* _extract_numeric_value on each text an attempt can hold, computed once
RateOfText == [t \in {Strip(x) : x \in PageTexts} |-> extract_numeric_value(t)]

\* if rate_text: rate = ...; if rate: return rate
Extracted(t) ==
    IF t # <<>>
    THEN LET rate == RateOfText[t]
         IN  IF Truthy(rate) THEN rate ELSE NoneVal
    ELSE NoneVal

Extract ==
    /\ pc = "extract"
    /\ pending' = Extracted(rate_text)
    /\ pc' = "finally"
    /\ UNCHANGED <<config, attempt, attempts, driver, openSessions, opened, rate_text,
                   reads, graceSleeps, result, slept, debugFiles, debugCalls, notifierVars,
                   exitStatus, parseVars>>

\* finally: if driver: driver.quit() -- quit can raise, with the session
\* closed or still open, and nothing around the finally block catches it
QuitOutcomes == {"ok", "raise_closed", "raise_open"}

Finally ==
    /\ pc = "finally"
    /\ \E o \in (IF driver = "set" THEN QuitOutcomes ELSE {"skip"}) :
         /\ openSessions' = IF o \in {"ok", "raise_closed"}
                            THEN openSessions - 1 ELSE openSessions
         /\ IF o \in {"raise_closed", "raise_open"}
            THEN /\ result' = RaisedVal
                 /\ pc' = "raised"
            ELSE IF pending.kind = "float"
                 THEN /\ result' = pending
                      /\ pc' = "returned"
                 ELSE /\ pc' = "between"
                      /\ UNCHANGED result
    /\ UNCHANGED <<config, attempt, attempts, driver, opened, rate_text, reads,
                   graceSleeps, pending, slept, debugFiles, debugCalls, notifierVars,
                   exitStatus, parseVars>>

\* if attempt < self.max_retries - 1: time.sleep(self.delay_between_requests)
SleepsAfter(att, n) == att < n - 1

Between ==
    /\ pc = "between"
    /\ slept' = IF SleepsAfter(attempt, max_retries) THEN Append(slept, delay) ELSE slept
    /\ attempt' = attempt + 1
    /\ pc' = "loop"
    /\ UNCHANGED <<config, attempts, driver, openSessions, opened, rate_text, reads,
                   graceSleeps, pending, result, debugFiles, debugCalls, notifierVars,
                   exitStatus, parseVars>>

(***************************************************************************)
(* ExchangeRateMonitor.run after get_exchange_rate has ended.              *)
(***************************************************************************)
\* a bare except, which catches SystemExit too
ExceptCatchesBaseException(exc) == TRUE

\* except Exception: SystemExit derives from BaseException, not Exception
ExceptExceptionCatches(exc) == exc # "SystemExit"

\* the comparison written with > in place of >=
AlertDueStrict(current_rate, thr) == Less(thr, current_rate)

\* if current_rate >= self.threshold
AlertDue(current_rate, thr) == GreaterEq(current_rate, thr)

\* if current_rate is None: ... elif current_rate >= threshold: ... else: ...
RunDecide ==
    /\ pc = "returned"
    /\ IF result.kind = "None"
       THEN /\ pc' = "no_rate"
            /\ UNCHANGED exitStatus
       ELSE IF AlertDue(result, threshold)
            THEN /\ pc' = "alert"
                 /\ UNCHANGED exitStatus
            ELSE /\ pc' = "exited"
                 /\ exitStatus' = 0
    /\ UNCHANGED <<config, scraperLocals, notifierVars, parseVars>>

\* send_error_notification("Failed to scrape ..."); sys.exit(1)
RunNoRate ==
    /\ pc = "no_rate"
    /\ \E o \in PostOutcomes :
         /\ SendNotification(send_error_notification("Failed to scrape exchange rate"), o)
         /\ IF SendResult(o) = "raise" \/ ExceptExceptionCatches("SystemExit")
            THEN /\ pc' = "handler"
                 /\ UNCHANGED exitStatus
            ELSE /\ pc' = "exited"
                 /\ exitStatus' = 1
    /\ UNCHANGED <<config, scraperLocals, parseVars>>

\* send_rate_alert(current_rate, self.threshold, True, self.url)
RunAlert ==
    /\ pc = "alert"
    /\ \E o \in PostOutcomes :
         /\ SendNotification(send_rate_alert(result, threshold, TRUE, URL), o)
         /\ IF SendResult(o) = "raise"
            THEN /\ pc' = "handler"
                 /\ UNCHANGED exitStatus
            ELSE /\ pc' = "exited"
                 /\ exitStatus' = 0
    /\ UNCHANGED <<config, scraperLocals, parseVars>>

\* except Exception as e: send_error_notification("Unexpected error ...");
\* sys.exit(1) -- an exception leaving the handler ends the process with 1 too
RunHandler ==
    /\ pc \in {"raised", "handler"}
    /\ \E o \in PostOutcomes :
         SendNotification(send_error_notification("Unexpected error"), o)
    /\ pc' = "exited"
    /\ exitStatus' = 1
    /\ UNCHANGED <<config, scraperLocals, parseVars>>

(***************************************************************************)
(* The notifier used alone (test.py) and _extract_numeric_value alone.     *)
(***************************************************************************)
TestRates == {Float(1750, <<5>>), Float(1688, <<5, 5, 9>>)}

NotifyTest ==
    /\ pc = "notify"
    /\ Len(sent) < MaxSends
    /\ \E o \in PostOutcomes : SendNotification(send_test_notification, o)
    /\ UNCHANGED <<pc, config, scraperLocals, exitStatus, parseVars>>

NotifyRateAlert ==
    /\ pc = "notify"
    /\ Len(sent) < MaxSends
    /\ \E o \in PostOutcomes, r \in TestRates :
         SendNotification(send_rate_alert(r, threshold, TRUE, URL), o)
    /\ UNCHANGED <<pc, config, scraperLocals, exitStatus, parseVars>>

NotifyError ==
    /\ pc = "notify"
    /\ Len(sent) < MaxSends
    /\ \E o \in PostOutcomes :
         SendNotification(send_error_notification("Test error"), o)
    /\ UNCHANGED <<pc, config, scraperLocals, exitStatus, parseVars>>

ExtractNumericValue ==
    /\ pc = "parse"
    /\ parsed' = extract_numeric_value(text)
    /\ pc' = "parsed"
    /\ UNCHANGED <<config, scraperLocals, notifierVars, exitStatus, text>>

Next ==
    \/ Start
    \/ LoopHead
    \/ CreateDriver
    \/ Navigate
    \/ WaitElement
    \/ ReadText
    \/ GraceReread
    \/ DebugCapture
    \/ Extract
    \/ Finally
    \/ Between
    \/ RunDecide
    \/ RunNoRate
    \/ RunAlert
    \/ RunHandler
    \/ NotifyTest
    \/ NotifyRateAlert
    \/ NotifyError
    \/ ExtractNumericValue

Spec == Init /\ [][Next]_vars

(***************************************************************************)
(* Properties.                                                             *)
(***************************************************************************)
\* the call of get_exchange_rate has ended, by return or by an exception
CallEnded == pc \in {"returned", "raised", "no_rate", "alert", "handler", "exited"}

RateAbove100(v) == v.ip > 100 \/ (v.ip = 100 /\ v.fd # <<>>)
RateBelow10000(v) == v.ip < 10000

\* C1: get_exchange_rate never raises to its caller: whatever fails inside
\* an attempt, session teardown included, the call ends by returning a rate
\* or None.
C1_NeverRaises == CallEnded => result.kind \in {"float", "None"}

\* C2: when every attempt fails and max_retries = n >= 1, the call makes
\* exactly n attempts, sleeps the configured delay once between consecutive
\* attempts (n - 1 sleeps, none after the last) and returns None.
C2_ExactRetries ==
    (CallEnded /\ max_retries >= 1 /\ result.kind # "float")
      => /\ attempts = max_retries
         /\ slept = [i \in 1..(max_retries - 1) |-> delay]
         /\ result.kind = "None"

\* C3: every session opened in an attempt is quit before the next attempt
\* opens one and before the call returns, on every exit path: at most one
\* session is open at any time, none when an attempt is about to open its
\* session, none once the call has returned.
C3_SessionsTornDown ==
    /\ openSessions <= 1
    /\ pc = "create" => openSessions = 0
    /\ pc = "returned" => openSessions = 0

\* C4: a rate returned by get_exchange_rate or by _extract_numeric_value is
\* strictly between 100 and 10000; a text that parses to exactly 100 or
\* exactly 10000 yields None.
C4_RateInOpenRange ==
    /\ result.kind = "float" => RateAbove100(result) /\ RateBelow10000(result)
    /\ parsed.kind = "float" => RateAbove100(parsed) /\ RateBelow10000(parsed)
    /\ (pc = "parsed" /\ text \in { <<"1", "0", "0">>, <<"1", "0", "0", "0", "0">>,
                                    <<"1", "0", "0", ".", "0", "0">> })
         => parsed.kind = "None"

C4_Witness ==
    /\ pc = "returned"
    /\ result = Float(1688, <<5, 6>>)

\* C5: _extract_numeric_value gives the intended number for each separator
\* style: "1.800,25" -> 1800.25, "1.688,56" -> 1688.56, "1,688.56" ->
\* 1688.56, "1688,56" -> 1688.56, "1,800" -> 1800.0, "1688.5590 ARS" ->
\* 1688.559.
C5_SeparatorStyles ==
    pc = "parsed" =>
      /\ text = <<"1", ".", "8", "0", "0", ",", "2", "5">>
           => parsed = Float(1800, <<2, 5>>)
      /\ text = <<"1", ".", "6", "8", "8", ",", "5", "6">>
           => parsed = Float(1688, <<5, 6>>)
      /\ text = <<"1", ",", "6", "8", "8", ".", "5", "6">>
           => parsed = Float(1688, <<5, 6>>)
      /\ text = <<"1", "6", "8", "8", ",", "5", "6">>
           => parsed = Float(1688, <<5, 6>>)
      /\ text = <<"1", ",", "8", "0", "0">>
           => parsed = Float(1800, <<>>)
      /\ text = <<"1", "6", "8", "8", ".", "5", "5", "9", "0", " ", "A", "R", "S">>
           => parsed = Float(1688, <<5, 5, 9>>)

\* C6: _extract_numeric_value never raises: a text with no digit, dot or
\* comma, and a text whose cleaned form is not a number (no digit at all,
\* or more than one dot once the separators are normalized), gives None.
C6_ParseNeverRaises ==
    pc = "parsed" =>
      LET cleaned == RemoveNonNumeric(text)
          number  == NormalizeSeparators(cleaned)
      IN  /\ parsed.kind \in {"float", "None"}
          /\ cleaned = <<>> => parsed.kind = "None"
          /\ Count(number, ".") >= 2 => parsed.kind = "None"
          /\ (\A i \in 1..Len(cleaned) : cleaned[i] \notin Digits)
               => parsed.kind = "None"

C6_Witness ==
    /\ pc = "parsed"
    /\ text = <<"1", ",", "2", ",", "3">>
    /\ parsed.kind = "None"

\* C7: when acquisition returned a rate r, the finished run has requested
\* exactly one alert if r >= threshold (r = threshold included), carrying
\* r, the threshold, the at-or-above direction and the source URL, its body
\* stating r to two decimals and the threshold; and nothing if r < threshold.
C7_AlertIffAtOrAbove ==
    (pc = "exited" /\ result.kind = "float") =>
      IF ~Less(result, threshold)
      THEN /\ Len(sent) = 1
           /\ sent[1].op = "send_rate_alert"
           /\ sent[1].rate = result
           /\ sent[1].threshold = threshold
           /\ sent[1].is_above
           /\ sent[1].url = URL
           /\ sent[1].payload.direction = "above"
           /\ sent[1].payload.link = URL
           /\ sent[1].payload.body_rate = Format2(result)
           /\ sent[1].payload.body_threshold = Format2(threshold)
           /\ result = Float(1688, <<5, 5, 9>>)
                => sent[1].payload.body_rate = <<"1", "6", "8", "8", ".", "5", "6">>
           /\ threshold = Float(1700, <<>>)
                => sent[1].payload.body_threshold = <<"1", "7", "0", "0", ".", "0", "0">>
      ELSE sent = <<>>

C7_Witness ==
    /\ pc = "exited"
    /\ result = threshold
    /\ Len(sent) = 1
    /\ sent[1].op = "send_rate_alert"

\* C8: when acquisition returned no rate, the finished run has requested
\* exactly one error notification and no alert, and its exit status is not
\* zero.
C8_NoRateOneError ==
    (pc = "exited" /\ result.kind = "None") =>
      /\ Len(sent) = 1
      /\ sent[1].op = "send_error_notification"
      /\ \A i \in 1..Len(sent) : sent[i].op # "send_rate_alert"
      /\ exitStatus # 0
      /\ exitStatus = 1

C8_Witness ==
    /\ pc = "exited"
    /\ result.kind = "None"
    /\ attempts = max_retries
    /\ attempts >= 2
    /\ exitStatus = 1

C10_TrueOnlyFor2xx ==
    \A i \in 1..Len(posts) :
      posts[i].kind = "response" =>
        (delivered[i] = "True" <=> (200 <= posts[i].status /\ posts[i].status <= 299))


\* a run of main.py alone, under the scheduling of a sequential program
\* whose blocking steps all return
NextRun ==
    \/ Start
    \/ LoopHead
    \/ CreateDriver
    \/ Navigate
    \/ WaitElement
    \/ ReadText
    \/ GraceReread
    \/ DebugCapture
    \/ Extract
    \/ Finally
    \/ Between
    \/ RunDecide
    \/ RunNoRate
    \/ RunAlert
    \/ RunHandler

FairSpec == InitRun /\ [][NextRun]_vars /\ WF_vars(NextRun)

\* C11: the exit status depends on the acquisition outcome alone, never on
\* delivery: a finished run that obtained a rate has status 0 and any other
\* finished run has status 1, whatever the POST ended in.
C11_ExitStatusFromAcquisition ==
    pc = "exited" => exitStatus = (IF result.kind = "float" THEN 0 ELSE 1)

C11_Witness ==
    /\ pc = "exited"
    /\ result.kind = "float"
    /\ Len(posts) = 1
    /\ posts[1].kind = "ConnectionError"
    /\ delivered[1] = "False"
    /\ exitStatus = 0

\* C12: a finished run has one of three outcomes: nothing requested and
\* status 0, one alert and status 0, or one error notification and status
\* not 0; never an alert with an error, never two notifications.
C12_ThreeOutcomes ==
    pc = "exited" =>
      \/ sent = <<>> /\ exitStatus = 0
      \/ Len(sent) = 1 /\ sent[1].op = "send_rate_alert" /\ exitStatus = 0
      \/ Len(sent) = 1 /\ sent[1].op = "send_error_notification" /\ exitStatus > 0

C12_Witness ==
    /\ pc = "exited"
    /\ sent = <<>>
    /\ exitStatus = 0
    /\ attempts = 2

\* C13: the debug flag never changes what an attempt yields: an attempt
\* that has read a non-empty text yields what the flag-off code yields for
\* that text (the parsed rate, or failure), even when reading or writing
\* the page markup fails.
C13_DebugNeverChangesOutcome ==
    (pc = "finally" /\ rate_text # <<>>) => pending = Extracted(rate_text)

\* C14: an exception leaving the acquisition is caught once by run, which
\* requests exactly one error notification and exits with status 1; the
\* SystemExit of the no-rate path is not caught, so that path never
\* requests the "Unexpected error" notification.
C14_CaughtOnce ==
    /\ (pc = "exited" /\ result.kind = "raise")
         => /\ Len(sent) = 1
            /\ sent[1].op = "send_error_notification"
            /\ sent[1].payload.body = "Unexpected error"
            /\ exitStatus = 1
    /\ (pc = "exited" /\ result.kind = "None")
         => \A i \in 1..Len(sent) : sent[i].payload.body # "Unexpected error"

C14_Witness ==
    /\ pc = "exited"
    /\ result.kind = "raise"
    /\ Len(sent) = 1
    /\ exitStatus = 1

\* the text parses to an in-range value
GoodText(t) == t # <<>> /\ Truthy(extract_numeric_value(t))

\* C15: the first attempt that reads a non-empty text parsing to an
\* in-range value ends the acquisition by returning that value: such an
\* attempt is never followed by another one nor ended by an exception, and
\* a returned rate is the parse of the text just read, with no session
\* opened and no delay slept after it.
C15_FirstGoodReadReturns ==
    /\ pc \in {"between", "raised"} => ~GoodText(rate_text)
    /\ (pc = "returned" /\ result.kind = "float")
         => /\ GoodText(rate_text)
            /\ result = extract_numeric_value(rate_text)
            /\ opened <= attempts
            /\ Len(slept) = attempts - 1

\* C16: in one attempt the text is read at most twice; the grace sleep and
\* the second read happen once, and only after an empty first read; an
\* empty second read fails the attempt with no further read; a non-empty
\* first read is never followed by a grace sleep.
C16_GraceAtMostOnce ==
    /\ reads <= 2
    /\ graceSleeps <= 1
    /\ graceSleeps = 1 <=> reads = 2
    /\ pc = "grace" => rate_text = <<>> /\ reads = 1
    /\ (pc \in {"debug", "extract"} /\ reads = 1) => rate_text # <<>>
    /\ (pc = "finally" /\ reads = 2 /\ rate_text = <<>>) => pending.kind = "None"

C16_Witness ==
    /\ pc = "extract"
    /\ reads = 2
    /\ graceSleeps = 1
    /\ rate_text = <<>>

\* C17: with debug capture enabled, every attempt that had a session
\* reaches _save_debug_html with its own index, attempts that fail by a
\* navigation error or an element-wait timeout included.
C17_DebugFileEveryAttempt ==
    /\ (debug_html /\ pc = "between" /\ driver = "set") => (attempt + 1) \in debugCalls
    /\ debugFiles \subseteq debugCalls
    /\ \A n \in debugCalls : 1 <= n /\ n <= attempts

\* C18: every run terminates: the loop makes at most max_retries attempts
\* and a started run reaches its exit.
C18_RunTerminates ==
    /\ [](attempts <= Max(max_retries, 0))
    /\ (pc = "start") ~> (pc = "exited")

C18_Witness ==
    /\ pc = "exited"
    /\ attempts = max_retries
    /\ attempts >= 2
    /\ exitStatus = 0

\* str(x) of a float x in (100, 10000): plain decimal notation
DigitChar(d) == <<"0", "1", "2", "3", "4", "5", "6", "7", "8", "9">>[d + 1]
Render(v) ==
    IntToText(v.ip) \o <<".">>
      \o (IF v.fd = <<>> THEN <<"0">> ELSE [i \in 1..Len(v.fd) |-> DigitChar(v.fd[i])])

\* C19: parsing is idempotent on its own output: the plain decimal text of
\* an accepted value parses to the same value.
C19_ParseIdempotent ==
    /\ (pc = "parsed" /\ parsed.kind = "float")
         => extract_numeric_value(Render(parsed)) = parsed
    /\ result.kind = "float" => extract_numeric_value(Render(result)) = result

C19_Witness ==
    /\ pc = "parsed"
    /\ text = <<"1", ",", "8", "0", "0">>
    /\ parsed = Float(1800, <<>>)

\* C20: with max_retries <= 0 the call opens no session, sleeps no delay
\* and returns None, and the run requests one error notification and exits
\* with status 1.
C20_NonPositiveRetries ==
    max_retries <= 0 =>
      /\ attempts = 0
      /\ opened = 0
      /\ slept = <<>>
      /\ CallEnded => result.kind = "None"
      /\ pc = "exited"
           => /\ Len(sent) = 1
              /\ sent[1].op = "send_error_notification"
              /\ exitStatus = 1

C20_Witness ==
    /\ pc = "exited"
    /\ max_retries = 0
    /\ opened = 0
    /\ Len(sent) = 1
    /\ exitStatus = 1

====
